---- MODULE Spec2Model ----
(***************************************************************************)
(* A model of the LinkedIn post generator's enrichment pipeline            *)
(* (preprocess.py) and of its few-shot prompt builder (post_generator.py). *)
(*                                                                         *)
(* Text is a sequence of Unicode code points.  A JSON value is a record    *)
(* [t, v]: t names the Python type json.load gives it (str, int, list,     *)
(* null) and v holds the value.  A JSON object (a Python dict) is a        *)
(* function from key strings to JSON values.                               *)
(*                                                                         *)
(* Four specifications share the module, each over its own variables:      *)
(*   Spec        process_posts with extract_metadata and get_unified_tags  *)
(*   SpecClean   clean_text applied once and twice to an arbitrary text    *)
(*   SpecExtract extract_json_from_response on an arbitrary response       *)
(*   SpecPrompt  get_prompt over an arbitrary selector result              *)
(***************************************************************************)
EXTENDS Integers, Sequences, FiniteSets, TLC

VARIABLES
    \* ---- process_posts (preprocess.py) ----
    posts,                 \* the raw posts json.load returned
    processed_file_path,   \* TRUE iff an output path was passed
    pc,                    \* position in process_posts
    i,                     \* index of enumerate(posts), 0-based as in the code
    enriched_posts,        \* the list being built
    j,                     \* number of posts whose tags have been rewritten
    unique_tags,           \* the tag set get_unified_tags sent to the LLM
    cleaned_unified_tags,  \* clean_metadata(unified_tags)
    ext,                   \* the last extract_metadata call: response and result
    uni,                   \* the get_unified_tags call: response and result
    calls,                 \* the LLM round-trips issued, in order
    log,                   \* records of the diagnostic log, in order
    written,               \* content of the output file, None while not written
    result,                \* what process_posts returned, None if it did not
    failure,               \* the exception process_posts raised, None if none
    \* ---- clean_text alone ----
    text, cleaned, twice, cpc,
    \* ---- extract_json_from_response alone ----
    response_text, json_str, xpc,
    \* ---- get_prompt (post_generator.py) ----
    examples, prompt, gi, gpc

pipeVars == <<posts, processed_file_path, pc, i, enriched_posts, j, unique_tags,
              cleaned_unified_tags, ext, uni, calls, log, written, result, failure>>
cleanVars == <<text, cleaned, twice, cpc>>
extractVars == <<response_text, json_str, xpc>>
promptVars == <<examples, prompt, gi, gpc>>
vars == <<pipeVars, cleanVars, extractVars, promptVars>>

None == [t |-> "none"]

Some(x) == [t |-> "some", v |-> x]

----------------------------------------------------------------------------
(* Bounds of the model.                                                    *)

MaxTextLen == 3      \* longest text given to clean_text in SpecClean
MaxRespLen == 5      \* longest LLM response in SpecExtract
MaxPosts == 3        \* longest raw batch in Spec
MaxExamples == 3     \* longest selector result in SpecPrompt

----------------------------------------------------------------------------
(* Sequences and sets.                                                     *)

SeqsUpTo(S, n) == UNION {[1..k -> S] : k \in 0..n}

Range(f) == {f[k] : k \in DOMAIN f}

MinOf(S) == CHOOSE x \in S : \A y \in S : x <= y

MaxOf(S) == CHOOSE x \in S : \A y \in S : x >= y

\* every ordering of a finite set as a duplicate-free sequence
Orderings(S) == {f \in [1..Cardinality(S) -> S] : Range(f) = S}

----------------------------------------------------------------------------
(* clean_text: code points and the three passes of the function.           *)

\* the space re.sub puts in place of a code point outside the class
SP == 32

\* the code points texts are drawn from: LINE FEED, SPACE, 'A',
\* NO-BREAK SPACE, SINHALA LETTER AYANNA, a lone high surrogate and an
\* emoji outside the Basic Multilingual Plane
SampleChars == {10, SP, 65, 160, 3461, 55296, 128512}

IsSurrogate(c) == 55296 <= c /\ c <= 57343

\* the complement of the class [^\x20-\x7E\u00A0-\uFFFF\u0D80-\u0DFF]
InPreservedClass(c) ==
    \/ 32 <= c /\ c <= 126
    \/ 160 <= c /\ c <= 65535
    \/ 3456 <= c /\ c <= 3583

\* str.strip() with no argument strips what str.isspace() accepts
IsSpace(c) ==
    \/ 9 <= c /\ c <= 13
    \/ 28 <= c /\ c <= 32
    \/ c \in {133, 160, 5760, 8232, 8233, 8239, 8287, 12288}
    \/ 8192 <= c /\ c <= 8202

\* text.encode('utf-8', errors='ignore').decode('utf-8'): a lone surrogate
\* cannot be encoded and is dropped by the 'ignore' handler, so the
\* UnicodeEncodeError branch is never taken
EncodeIgnore(s) == SelectSeq(s, LAMBDA c : ~IsSurrogate(c))

\* re.sub(r'[^...]', ' ', text)
SubSpace(s) == [k \in DOMAIN s |-> IF InPreservedClass(s[k]) THEN s[k] ELSE SP]

StripLeadingOnly(s) ==
    LET keep == {k \in DOMAIN s : ~IsSpace(s[k])}
    IN  IF keep = {} THEN <<>> ELSE SubSeq(s, MinOf(keep), Len(s))

Strip(s) ==
    LET keep == {k \in DOMAIN s : ~IsSpace(s[k])}
    IN  IF keep = {} THEN <<>> ELSE SubSeq(s, MinOf(keep), MaxOf(keep))

clean_text(s) == Strip(SubSpace(EncodeIgnore(s)))

----------------------------------------------------------------------------
(* SpecClean: clean_text on an arbitrary text, then on its own result.     *)

pipeIdle ==
    /\ posts = <<>> /\ processed_file_path = FALSE /\ pc = "idle" /\ i = 0
    /\ enriched_posts = <<>> /\ j = 0 /\ unique_tags = {}
    /\ cleaned_unified_tags = None /\ ext = None /\ uni = None
    /\ calls = <<>> /\ log = <<>> /\ written = None /\ result = None
    /\ failure = None

cleanIdle == text = <<>> /\ cleaned = <<>> /\ twice = <<>> /\ cpc = "idle"

extractIdle == response_text = <<>> /\ json_str = None /\ xpc = "idle"

promptIdle == examples = <<>> /\ prompt = <<>> /\ gi = 0 /\ gpc = "idle"

InitClean ==
    /\ text \in SeqsUpTo(SampleChars, MaxTextLen)
    /\ cleaned = <<>> /\ twice = <<>> /\ cpc = "start"
    /\ pipeIdle /\ extractIdle /\ promptIdle

CleanOnce ==
    /\ cpc = "start"
    /\ cleaned' = clean_text(text)
    /\ cpc' = "once"
    /\ UNCHANGED <<text, twice, pipeVars, extractVars, promptVars>>

CleanAgain ==
    /\ cpc = "once"
    /\ twice' = clean_text(cleaned)
    /\ cpc' = "twice"
    /\ UNCHANGED <<text, cleaned, pipeVars, extractVars, promptVars>>

NextClean == CleanOnce \/ CleanAgain

SpecClean == InitClean /\ [][NextClean]_vars

\* C9: clean_text is idempotent, its result holds only code points of
\* printable ASCII, U+00A0-U+FFFF and the Sinhala block (a code point outside
\* them appears in the result only as the space that replaced it), and the
\* result neither starts nor ends with whitespace.
C9_CleanIdempotentClosed ==
    /\ cpc = "twice" => twice = cleaned
    /\ cpc \in {"once", "twice"} =>
        /\ \A k \in DOMAIN cleaned : InPreservedClass(cleaned[k])
        /\ \A k \in DOMAIN cleaned :
               cleaned[k] \in Range(text) \/ cleaned[k] = SP
        /\ cleaned # <<>> =>
               ~IsSpace(cleaned[1]) /\ ~IsSpace(cleaned[Len(cleaned)])

\* a text with a code point outside the class between two letters has been
\* cleaned twice, the space standing in its place
C9_Witness ==
    /\ cpc = "twice"
    /\ Len(text) = 3
    /\ ~InPreservedClass(text[2])
    /\ cleaned = <<text[1], SP, text[3]>>

----------------------------------------------------------------------------
(* Results of the functions that can raise.                                *)

Ok(v) == [ok |-> TRUE, v |-> v]

\* an exception: its class and its message, the pieces a wrapping
\* "prefix: {str(e)}" puts together kept apart
Err(type, msg) == [ok |-> FALSE, type |-> type, msg |-> msg]

\* raise Exception(f"<prefix>: {str(e)}")
Wrap(prefix, e) == Err("Exception", <<prefix>> \o e.msg)

----------------------------------------------------------------------------
(* extract_json_from_response: re.search(r'\{.*?\}', text, re.DOTALL).     *)

LBrace == 123
RBrace == 125

\* the code points responses are drawn from: 'a', LINE FEED, braces
RespChars == {97, 10, LBrace, RBrace}

\* what '.' matches: under re.DOTALL every code point, LINE FEED included
Dot(c) == TRUE

\* the ends b of the matches of \{.*\} that start at a
MatchEnds(s, a) ==
    {b \in (a + 1)..Len(s) :
        /\ s[a] = LBrace
        /\ s[b] = RBrace
        /\ \A k \in (a + 1)..(b - 1) : Dot(s[k])}

\* '.*' instead of '.*?' takes the longest match from the start it found
LongestEnd(s, a) == MaxOf(MatchEnds(s, a))

\* '.*?' takes the shortest
ShortestEnd(s, a) == MinOf(MatchEnds(s, a))

\* re.search returns the match at the leftmost start that has one
extract_json_from_response(s) ==
    LET starts == {a \in DOMAIN s : MatchEnds(s, a) # {}}
    IN  IF starts = {}
        THEN Err("ValueError", <<"No valid JSON object found in response">>)
        ELSE Ok(SubSeq(s, MinOf(starts), ShortestEnd(s, MinOf(starts))))

----------------------------------------------------------------------------
(* SpecExtract: extract_json_from_response on an arbitrary response.       *)

InitExtract ==
    /\ response_text \in SeqsUpTo(RespChars, MaxRespLen)
    /\ json_str = None /\ xpc = "start"
    /\ pipeIdle /\ cleanIdle /\ promptIdle

ExtractJson ==
    /\ xpc = "start"
    /\ json_str' = extract_json_from_response(response_text)
    /\ xpc' = "done"
    /\ UNCHANGED <<response_text, pipeVars, cleanVars, promptVars>>

NextExtract == ExtractJson

SpecExtract == InitExtract /\ [][NextExtract]_vars

IsBrace(c) == c \in {LBrace, RBrace}

\* braces opened and not yet closed after the first k code points of o
Depth(o, k) ==
    Cardinality({m \in 1..k : o[m] = LBrace})
        - Cardinality({m \in 1..k : o[m] = RBrace})

\* the text of a JSON object as far as braces show it: it opens with a
\* brace that only its last code point closes, and an inner object follows
\* a key, so never a brace or a line break directly
WellFormedObject(o) ==
    /\ Len(o) >= 2
    /\ o[1] = LBrace
    /\ o[Len(o)] = RBrace
    /\ \A k \in 1..(Len(o) - 1) : Depth(o, k) > 0
    /\ Depth(o, Len(o)) = 0
    /\ \A k \in 2..Len(o) : o[k] = LBrace => o[k - 1] = 97

\* an object with no brace between its own two
FlatObject(o) ==
    /\ WellFormedObject(o)
    /\ \A k \in 2..(Len(o) - 1) : ~IsBrace(o[k])

BraceFree(p) == \A k \in DOMAIN p : ~IsBrace(p[k])

NoOpeningBrace(p) == \A k \in DOMAIN p : p[k] # LBrace

HasBraceDelimited(s) ==
    \E a, b \in DOMAIN s : a < b /\ s[a] = LBrace /\ s[b] = RBrace

NoObjectError == Err("ValueError", <<"No valid JSON object found in response">>)

----------------------------------------------------------------------------
(* SpecPrompt: get_prompt.  The prompt is the sequence of the pieces the   *)
(* function appended to it; few_shot.get_filtered_posts is the selector,   *)
(* whose result is any sequence of posts.                                  *)

PostTexts == {"post a", "post b", "post c"}

\* the f-string of topic, length and language the prompt starts with
HeaderPart == [part |-> "header"]

\* "4) Use the writing style as per the following examples."
StylePart == [part |-> "style"]

\* "\n\n Example {i+1}: \n\n {post_text}"
ExamplePart(n, post_text) == [part |-> "example", n |-> n, text |-> post_text]

\* the break of the loop, one iteration late
LoopBreaksLate(idx) == idx = 2

\* if i == 1: break
LoopBreaks(idx) == idx = 1

InitPrompt ==
    /\ examples \in SeqsUpTo([text : PostTexts], MaxExamples)
    /\ prompt = <<>> /\ gi = 0 /\ gpc = "start"
    /\ pipeIdle /\ cleanIdle /\ extractIdle

\* the header is built and the selector has returned
PromptHeader ==
    /\ gpc = "start"
    /\ prompt' = <<HeaderPart>>
    /\ gpc' = "style"
    /\ UNCHANGED <<examples, gi, pipeVars, cleanVars, extractVars>>

PromptStyleLine ==
    /\ gpc = "style"
    /\ prompt' = IF Len(examples) > 0 THEN Append(prompt, StylePart) ELSE prompt
    /\ gi' = 0
    /\ gpc' = "loop"
    /\ UNCHANGED <<examples, pipeVars, cleanVars, extractVars>>

\* one iteration of for i, post in enumerate(examples)
PromptExample ==
    /\ gpc = "loop"
    /\ gi < Len(examples)
    /\ prompt' = Append(prompt, ExamplePart(gi + 1, examples[gi + 1].text))
    /\ IF LoopBreaks(gi)
       THEN gpc' = "return" /\ gi' = gi
       ELSE gpc' = "loop" /\ gi' = gi + 1
    /\ UNCHANGED <<examples, pipeVars, cleanVars, extractVars>>

PromptLoopEnds ==
    /\ gpc = "loop"
    /\ gi = Len(examples)
    /\ gpc' = "return"
    /\ UNCHANGED <<examples, prompt, gi, pipeVars, cleanVars, extractVars>>

PromptReturn ==
    /\ gpc = "return"
    /\ gpc' = "done"
    /\ UNCHANGED <<examples, prompt, gi, pipeVars, cleanVars, extractVars>>

NextPrompt ==
    \/ PromptHeader
    \/ PromptStyleLine
    \/ PromptExample
    \/ PromptLoopEnds
    \/ PromptReturn

SpecPrompt == InitPrompt /\ [][NextPrompt]_vars

EmbeddedExamples(p) == SelectSeq(p, LAMBDA x : x.part = "example")

FirstTwo(n) == IF n < 2 THEN n ELSE 2

\* C10: the prompt get_prompt returns embeds exactly the first min(2, n)
\* posts the selector returned, in that order, numbered 1 and 2; no prompt
\* ever holds a third example; and the writing-style line is in the
\* returned prompt iff the selector returned at least one post.
C10_FewShotCap ==
    /\ Len(EmbeddedExamples(prompt)) <= 2
    /\ gpc = "done" =>
        /\ EmbeddedExamples(prompt) =
               [k \in 1..FirstTwo(Len(examples)) |->
                   ExamplePart(k, examples[k].text)]
        /\ (StylePart \in Range(prompt)) <=> (Len(examples) > 0)

\* the selector returned three posts and the prompt was returned with two
C10_Witness ==
    /\ gpc = "done"
    /\ Len(examples) = 3
    /\ examples[1] # examples[2]
    /\ Len(EmbeddedExamples(prompt)) = 2

----------------------------------------------------------------------------
(* JSON values as json.load and the output parser give them.               *)

JStr(s) == [t |-> "str", v |-> s]

JInt(n) == [t |-> "int", v |-> n]

JList(xs) == [t |-> "list", v |-> xs]

JDict(d) == [t |-> "dict", v |-> d]

JNull == [t |-> "null", v |-> 0]

\* dict.get(key, default)
Get(d, key, default) == IF key \in DOMAIN d THEN d[key] ELSE default

\* clean_metadata: a str value is cleaned, a list is cleaned item by item
\* (its str items), anything else passes through
CleanValue(value) ==
    CASE value.t = "str" -> JStr(clean_text(value.v))
      [] value.t = "list" ->
            JList([n \in DOMAIN value.v |->
                    IF value.v[n].t = "str"
                    THEN JStr(clean_text(value.v[n].v))
                    ELSE value.v[n]])
      [] OTHER -> value

clean_metadata(metadata) == [key \in DOMAIN metadata |-> CleanValue(metadata[key])]

----------------------------------------------------------------------------
(* The inputs of an enrichment run: the raw batch and what the LLM and the *)
(* output parser answer.                                                   *)

\* a raw post carries its position as a pass-through field "id"; its text
\* is a str in need of cleaning ("\nA"), absent, a JSON array or null
TextKinds == {"str", "absent", "list", "null"}

RawText(kind) ==
    CASE kind = "str" -> JStr(<<10, 65>>)
      [] kind = "list" -> JList(<<>>)
      [] OTHER -> JNull

RawPost(id, kind) ==
    IF kind = "absent"
    THEN [id |-> JInt(id)]
    ELSE [id |-> JInt(id), text |-> RawText(kind)]

Batches ==
    UNION {{[k \in 1..n |-> RawPost(k - 1, kinds[k])] : kinds \in [1..n -> TextKinds]}
              : n \in 0..MaxPosts}

English == <<69, 110>>
Sinhala == <<83, 105>>
French == <<70, 114>>

TagA == <<65>>
TagB == <<66>>
TagC == <<67>>

\* what the output parser makes of the extracted text when it does not raise
ParsedMetadata ==
    { JList(<<>>),
      JDict([line_count |-> JInt(2), language |-> JStr(English),
             tags |-> JList(<<JStr(TagA), JStr(TagB \o <<10>>)>>)]),
      JDict([line_count |-> JInt(1), language |-> JStr(Sinhala),
             tags |-> JList(<<JStr(TagB)>>)]),
      JDict([line_count |-> JInt(1), language |-> JStr(French),
             tags |-> JList(<<JStr(TagA)>>)]),
      JDict([line_count |-> JInt(1), tags |-> JList(<<JStr(TagA)>>)]),
      JDict([language |-> JStr(English), tags |-> JList(<<JStr(TagA)>>)]) }

ParseFailed == Err("OutputParserException", <<"Invalid json output">>)

\* a response: the call raised, or it returned a content, of which the
\* parser (given the text extract_json_from_response cut out) makes parsed
LlmRaised == [raises |-> TRUE, content |-> <<>>, parsed |-> ParseFailed]

Answer(content, parsed) == [raises |-> FALSE, content |-> content, parsed |-> parsed]

\* "a" and "a{a}a": prose alone, and an object inside prose
ProseOnly == <<97>>
ObjectInProse == <<97, LBrace, 97, RBrace, 97>>

ExtractResponses ==
    {LlmRaised, Answer(ProseOnly, ParseFailed), Answer(ObjectInProse, ParseFailed)}
        \cup {Answer(ObjectInProse, Ok(m)) : m \in ParsedMetadata}

\* the mappings the unifier's LLM may answer: any map from some of the tags
\* A and B to "A", "C\n" or a JSON array
TagMaps ==
    UNION {[K -> {JStr(TagA), JStr(TagC \o <<10>>), JList(<<>>)}]
              : K \in SUBSET {TagA, TagB}}

UnifyResponses ==
    {LlmRaised, Answer(ProseOnly, ParseFailed), Answer(ObjectInProse, ParseFailed),
     Answer(ObjectInProse, Ok(JList(<<>>)))}
        \cup {Answer(ObjectInProse, Ok(JDict(m))) : m \in TagMaps}

----------------------------------------------------------------------------
(* extract_metadata and get_unified_tags.                                  *)

RequiredKeys == {"line_count", "language", "tags"}

\* the language check left out
AnyLanguage(language) == TRUE

\* res['language'] in ["English", "Sinhala"]
ValidLanguage(language) == language \in {JStr(English), JStr(Sinhala)}

\* the body of the try of extract_metadata
ExtractMetadataBody(resp) ==
    IF resp.raises THEN Err("RuntimeError", <<"LLM call failed">>)
    ELSE LET js == extract_json_from_response(resp.content)
         IN  IF ~js.ok THEN js
             ELSE IF ~resp.parsed.ok THEN resp.parsed
             ELSE LET res == resp.parsed.v
                  IN  IF res.t # "dict" \/ ~(RequiredKeys \subseteq DOMAIN res.v)
                      THEN Err("ValueError", <<"Invalid metadata format returned by LLM.">>)
                      ELSE IF ~ValidLanguage(res.v["language"])
                      THEN Err("ValueError", <<"Invalid language returned by LLM.">>)
                      ELSE Ok(res.v)

\* the two except clauses re-raise: a parser exception as its own class,
\* any other wrapped in Exception
extract_metadata(resp) ==
    LET r == ExtractMetadataBody(resp)
    IN  IF r.ok THEN r
        ELSE IF r.type = "OutputParserException"
        THEN Err("OutputParserException", <<"Failed to parse LLM response">> \o r.msg)
        ELSE Wrap("Error extracting metadata", r)

\* the tags get_unified_tags joins into its prompt
UniqueTags(posts_with_metadata) ==
    UNION {{clean_text(tag.v) : tag \in Range(Get(p, "tags", JList(<<>>)).v)}
              : p \in Range(posts_with_metadata)}

UnifyBody(resp) ==
    IF resp.raises THEN Err("RuntimeError", <<"LLM call failed">>)
    ELSE LET js == extract_json_from_response(resp.content)
         IN  IF ~js.ok THEN js
             ELSE IF ~resp.parsed.ok THEN resp.parsed
             ELSE IF resp.parsed.v.t # "dict"
             THEN Err("ValueError", <<"Invalid tag unification format returned by LLM.">>)
             ELSE Ok(resp.parsed.v.v)

\* a unifier that answers the empty mapping where it should raise
get_unified_tags_lenient(posts_with_metadata, resp) ==
    IF UnifyBody(resp).ok THEN UnifyBody(resp) ELSE Ok(<<>>)

get_unified_tags(posts_with_metadata, resp) ==
    LET r == UnifyBody(resp)
    IN  IF r.ok THEN r
        ELSE IF r.type = "OutputParserException"
        THEN Err("OutputParserException",
                 <<"Failed to parse tag unification response">> \o r.msg)
        ELSE Wrap("Error unifying tags", r)

----------------------------------------------------------------------------
(* Spec: process_posts from the loop over the loaded posts to its return   *)
(* or its exception.                                                       *)

LogRec(level, src, what, index) ==
    [level |-> level, src |-> src, what |-> what, index |-> index]

\* post['text'][:100], evaluated by the info line that opens the try and
\* again by the message of the except clause
Excerpt(post) ==
    IF "text" \notin DOMAIN post THEN Err("KeyError", <<"'text'">>)
    ELSE IF post["text"].t \notin {"str", "list"}
    THEN Err("TypeError", <<"object is not subscriptable">>)
    ELSE Ok(post["text"])

\* post.copy(), then ['text'] = cleaned text, then update(cleaned metadata)
Merge(post, cleaned_post_text, cleaned_metadata) ==
    [key \in DOMAIN post \cup DOMAIN cleaned_metadata |->
        IF key \in DOMAIN cleaned_metadata THEN cleaned_metadata[key]
        ELSE IF key = "text" THEN cleaned_post_text
        ELSE post[key]]

\* the loop left after the first post
LoopDoneEarly(idx, ps) == idx >= 1 \/ idx = Len(ps)

\* enumerate(posts) is exhausted
LoopDone(idx, ps) == idx = Len(ps)

\* the emptiness check left out
NoSurvivorsUnchecked(ps) == FALSE

\* if not enriched_posts
NoSurvivors(ps) == ps = <<>>

\* the tag kept whatever the mapping says
MapTagKept(m, tag) == tag

\* cleaned_unified_tags.get(tag, tag)
MapTag(m, tag) == Get(m, tag.v, tag)

\* the except clauses of process_posts: FileNotFoundError is re-raised as
\* "Input file ... not found.", anything else wrapped in Exception
Escalate(e) ==
    IF e.type = "FileNotFoundError"
    THEN Err("FileNotFoundError", <<"Input file not found.">>)
    ELSE Wrap("Error processing posts", e)

EscalateLog(e) ==
    IF e.type = "FileNotFoundError"
    THEN LogRec("error", "process_posts", "Input file not found", -1)
    ELSE LogRec("error", "process_posts", "Error processing posts", -1)

EmptyResultError == Err("ValueError", <<"No posts were successfully processed.">>)

Init ==
    /\ posts \in Batches
    /\ processed_file_path \in BOOLEAN
    /\ pc = "loop" /\ i = 0 /\ enriched_posts = <<>> /\ j = 0
    /\ unique_tags = {} /\ cleaned_unified_tags = None
    /\ ext = None /\ uni = None /\ calls = <<>> /\ log = <<>>
    /\ written = None /\ result = None /\ failure = None
    /\ cleanIdle /\ extractIdle /\ promptIdle

\* The info line raises (no 'text', or a text that cannot be sliced); the
\* except clause builds its message from post['text'][:100] and raises the
\* same again, which leaves the loop and reaches the outer except clause.
PostAborts ==
    /\ pc = "loop" /\ ~LoopDone(i, posts)
    /\ LET post == posts[i + 1]
       IN  /\ ~Excerpt(post).ok
           /\ log' = Append(log, EscalateLog(Excerpt(post)))
           /\ failure' = Escalate(Excerpt(post))
    /\ pc' = "failed"
    /\ UNCHANGED <<posts, processed_file_path, i, enriched_posts, j, unique_tags,
                   cleaned_unified_tags, ext, uni, calls, written, result,
                   cleanVars, extractVars, promptVars>>

\* The post is skipped before any LLM call: by the check for a missing
\* 'text' (after the info line has read it), or because clean_text raises
\* AttributeError on a text that is no str and the except clause logs it.
PostSkipped ==
    /\ pc = "loop" /\ ~LoopDone(i, posts)
    /\ LET post == posts[i + 1]
       IN  /\ Excerpt(post).ok
           /\ "text" \notin DOMAIN post \/ post["text"].t # "str"
           /\ log' = log \o
                <<LogRec("info", "process_posts", "Processing post", i),
                  IF "text" \notin DOMAIN post
                  THEN LogRec("warning", "process_posts", "missing 'text' field", i)
                  ELSE LogRec("error", "process_posts", "Error processing post", i)>>
    /\ i' = i + 1
    /\ UNCHANGED <<posts, processed_file_path, pc, enriched_posts, j, unique_tags,
                   cleaned_unified_tags, ext, uni, calls, written, result, failure,
                   cleanVars, extractVars, promptVars>>

\* extract_metadata raises: it logs its error, the except clause of the
\* loop logs the post's, and the loop goes on.
PostExtractFails ==
    /\ pc = "loop" /\ ~LoopDone(i, posts)
    /\ LET post == posts[i + 1]
       IN  /\ Excerpt(post).ok
           /\ "text" \in DOMAIN post /\ post["text"].t = "str"
    /\ \E resp \in ExtractResponses :
         LET r == extract_metadata(resp)
         IN  /\ ~r.ok
             /\ ext' = [index |-> i, response |-> resp, result |-> r]
             /\ log' = log \o
                  <<LogRec("info", "process_posts", "Processing post", i),
                    LogRec("error", "extract_metadata", r.msg[1], -1),
                    LogRec("error", "process_posts", "Error processing post", i)>>
    /\ calls' = Append(calls, [kind |-> "extract", index |-> i])
    /\ i' = i + 1
    /\ UNCHANGED <<posts, processed_file_path, pc, enriched_posts, j, unique_tags,
                   cleaned_unified_tags, uni, written, result, failure,
                   cleanVars, extractVars, promptVars>>

\* The post is cleaned, its metadata extracted and cleaned, and the merged
\* copy appended.
PostEnriched ==
    /\ pc = "loop" /\ ~LoopDone(i, posts)
    /\ LET post == posts[i + 1]
       IN  /\ Excerpt(post).ok
           /\ "text" \in DOMAIN post /\ post["text"].t = "str"
           /\ \E resp \in ExtractResponses :
                LET r == extract_metadata(resp)
                    cleaned_post_text == JStr(clean_text(post["text"].v))
                IN  /\ r.ok
                    /\ ext' = [index |-> i, response |-> resp, result |-> r]
                    /\ enriched_posts' =
                         Append(enriched_posts,
                                Merge(post, cleaned_post_text, clean_metadata(r.v)))
    /\ log' = Append(log, LogRec("info", "process_posts", "Processing post", i))
    /\ calls' = Append(calls, [kind |-> "extract", index |-> i])
    /\ i' = i + 1
    /\ UNCHANGED <<posts, processed_file_path, pc, j, unique_tags,
                   cleaned_unified_tags, uni, written, result, failure,
                   cleanVars, extractVars, promptVars>>

\* No post survived: ValueError is raised, and the outer except clause
\* wraps it.
NoPostsProcessed ==
    /\ pc = "loop" /\ LoopDone(i, posts)
    /\ NoSurvivors(enriched_posts)
    /\ log' = log \o
         <<LogRec("error", "process_posts", "No posts were successfully processed.", -1),
           EscalateLog(EmptyResultError)>>
    /\ failure' = Escalate(EmptyResultError)
    /\ pc' = "failed"
    /\ UNCHANGED <<posts, processed_file_path, i, enriched_posts, j, unique_tags,
                   cleaned_unified_tags, ext, uni, calls, written, result,
                   cleanVars, extractVars, promptVars>>

\* get_unified_tags raises, and the outer except clause wraps its error.
UnifyFails ==
    /\ pc = "loop" /\ LoopDone(i, posts)
    /\ ~NoSurvivors(enriched_posts)
    /\ \E resp \in UnifyResponses :
         LET r == get_unified_tags(enriched_posts, resp)
         IN  /\ ~r.ok
             /\ uni' = [response |-> resp, result |-> r]
             /\ log' = log \o
                  <<LogRec("error", "get_unified_tags", r.msg[1], -1), EscalateLog(r)>>
             /\ failure' = Escalate(r)
    /\ unique_tags' = UniqueTags(enriched_posts)
    /\ calls' = Append(calls, [kind |-> "unify", index |-> -1])
    /\ pc' = "failed"
    /\ UNCHANGED <<posts, processed_file_path, i, enriched_posts, j,
                   cleaned_unified_tags, ext, written, result,
                   cleanVars, extractVars, promptVars>>

\* get_unified_tags returns a mapping, which clean_metadata cleans.
UnifyReturns ==
    /\ pc = "loop" /\ LoopDone(i, posts)
    /\ ~NoSurvivors(enriched_posts)
    /\ \E resp \in UnifyResponses :
         LET r == get_unified_tags(enriched_posts, resp)
         IN  /\ r.ok
             /\ uni' = [response |-> resp, result |-> r]
             /\ cleaned_unified_tags' = clean_metadata(r.v)
    /\ unique_tags' = UniqueTags(enriched_posts)
    /\ calls' = Append(calls, [kind |-> "unify", index |-> -1])
    /\ pc' = "rewrite" /\ j' = 0
    /\ UNCHANGED <<posts, processed_file_path, i, enriched_posts, ext, log,
                   written, result, failure, cleanVars, extractVars, promptVars>>

\* the tags of the next post, each mapped through the cleaned mapping
MappedTags(post) ==
    LET current_tags == Get(post, "tags", JList(<<>>)).v
    IN  [n \in DOMAIN current_tags |-> MapTag(cleaned_unified_tags, current_tags[n])]

\* One iteration of the rewriting loop: the set comprehension, then
\* list(new_tags), whose order is whatever the set's iteration gives.
RewriteTags ==
    /\ pc = "rewrite" /\ j < Len(enriched_posts)
    /\ LET mapped == MappedTags(enriched_posts[j + 1])
       IN  /\ \A n \in DOMAIN mapped : mapped[n].t # "list"
           /\ \E order \in Orderings(Range(mapped)) :
                enriched_posts' =
                    [enriched_posts EXCEPT ![j + 1] =
                        [key \in DOMAIN @ \cup {"tags"} |->
                            IF key = "tags" THEN JList(order) ELSE @[key]]]
    /\ j' = j + 1
    /\ UNCHANGED <<posts, processed_file_path, pc, i, unique_tags,
                   cleaned_unified_tags, ext, uni, calls, log, written, result,
                   failure, cleanVars, extractVars, promptVars>>

\* A mapped tag is a list, which no set can hold: TypeError, wrapped by the
\* outer except clause.
RewriteFails ==
    /\ pc = "rewrite" /\ j < Len(enriched_posts)
    /\ LET mapped == MappedTags(enriched_posts[j + 1])
       IN  \E n \in DOMAIN mapped : mapped[n].t = "list"
    /\ log' = Append(log, EscalateLog(Err("TypeError", <<"unhashable type: 'list'">>)))
    /\ failure' = Escalate(Err("TypeError", <<"unhashable type: 'list'">>))
    /\ pc' = "failed"
    /\ UNCHANGED <<posts, processed_file_path, i, enriched_posts, j, unique_tags,
                   cleaned_unified_tags, ext, uni, calls, written, result,
                   cleanVars, extractVars, promptVars>>

\* The output file is written if a path was given, and the posts returned.
WriteAndReturn ==
    /\ pc = "rewrite" /\ j = Len(enriched_posts)
    /\ IF processed_file_path
       THEN /\ written' = Some(enriched_posts)
            /\ log' = Append(log, LogRec("info", "process_posts",
                                         "Successfully wrote posts", -1))
       ELSE UNCHANGED <<written, log>>
    /\ result' = Some(enriched_posts)
    /\ pc' = "returned"
    /\ UNCHANGED <<posts, processed_file_path, i, enriched_posts, j, unique_tags,
                   cleaned_unified_tags, ext, uni, calls, failure,
                   cleanVars, extractVars, promptVars>>

\* open(processed_file_path, 'w') raises.
WriteFails ==
    /\ pc = "rewrite" /\ j = Len(enriched_posts)
    /\ processed_file_path
    /\ \E e \in {Err("FileNotFoundError", <<"No such file or directory">>),
                  Err("PermissionError", <<"Permission denied">>)} :
         /\ log' = Append(log, EscalateLog(e))
         /\ failure' = Escalate(e)
    /\ pc' = "failed"
    /\ UNCHANGED <<posts, processed_file_path, i, enriched_posts, j, unique_tags,
                   cleaned_unified_tags, ext, uni, calls, written, result,
                   cleanVars, extractVars, promptVars>>

Next ==
    \/ PostAborts
    \/ PostSkipped
    \/ PostExtractFails
    \/ PostEnriched
    \/ NoPostsProcessed
    \/ UnifyFails
    \/ UnifyReturns
    \/ RewriteTags
    \/ RewriteFails
    \/ WriteAndReturn
    \/ WriteFails

Spec == Init /\ [][Next]_vars

----------------------------------------------------------------------------
(* Properties of process_posts.                                            *)

PostError(k) == LogRec("error", "process_posts", "Error processing post", k)

\* the "id" each enriched post carries, in the order of the list
EnrichedIds == [n \in DOMAIN enriched_posts |-> enriched_posts[n]["id"].v]

ExtractCalls == SelectSeq(calls, LAMBDA c : c.kind = "extract")

UnifyCalls == SelectSeq(calls, LAMBDA c : c.kind = "unify")

TagsOf(post) == Get(post, "tags", JList(<<>>)).v

NoDuplicates(q) == \A a, b \in DOMAIN q : a # b => q[a] # q[b]

\* C1: a post that has a text and fails in cleaning, extraction, metadata
\* cleaning or merging never ends the run inside the loop; every post
\* handled so far is either in enriched_posts or named by exactly one
\* per-post error record of the log, never both; and enriched_posts holds
\* the posts that succeeded in input order.
C1_PartialFailureIsolation ==
    /\ (pc = "failed" /\ i < Len(posts)) => "text" \notin DOMAIN posts[i + 1]
    /\ \A k \in 0..(i - 1) :
           LET errs == {n \in DOMAIN log : log[n] = PostError(k)}
           IN  IF k \in Range(EnrichedIds)
               THEN errs = {}
               ELSE Cardinality(errs) = 1
    /\ \A a, b \in DOMAIN EnrichedIds : a < b => EnrichedIds[a] < EnrichedIds[b]

\* C2: a post without a text field never ends the run: the run does not
\* fail at such a post, and a batch of one such post fails with the
\* no-posts-processed error.
C2_MissingTextSkipped ==
    /\ (pc = "failed" /\ i < Len(posts)) => "text" \in DOMAIN posts[i + 1]
    /\ (pc = "failed" /\ Len(posts) = 1 /\ "text" \notin DOMAIN posts[1])
           => failure = Escalate(EmptyResultError)

\* C3: once the loop is over with no enriched post (the empty batch
\* included), the run can only fail, with the no-posts-processed error: the
\* unifier is never called, nothing is returned and nothing is written.
C3_EmptyResultFatal ==
    (i = Len(posts) /\ enriched_posts = <<>>) =>
        /\ pc \in {"loop", "failed"}
        /\ pc = "failed" => failure = Escalate(EmptyResultError)
        /\ UnifyCalls = <<>>
        /\ uni = None
        /\ result = None
        /\ written = None

\* a batch of two posts, one skipped and one failing in extraction, ended
\* in the no-posts-processed error
C3_Witness ==
    /\ pc = "failed"
    /\ Len(posts) = 2
    /\ i = 2
    /\ Len(calls) = 1
    /\ failure = Err("Exception", <<"Error processing posts",
                                    "No posts were successfully processed.">>)

C5_TagsInValueSet ==
    pc = "returned" =>
        \A n \in DOMAIN result.v :
            /\ \A tag \in Range(TagsOf(result.v[n])) :
                   tag \in Range(cleaned_unified_tags)
            /\ NoDuplicates(TagsOf(result.v[n]))

\* C5 amended: every tag of every returned post is a value of the cleaned
\* mapping or a tag the mapping has no key for; when the mapping has a key
\* for every tag of the corpus, every tag is one of its values; and no
\* post's tags hold a duplicate.
C5_TagsMappedOrKept ==
    pc = "returned" =>
        \A n \in DOMAIN result.v :
            /\ \A tag \in Range(TagsOf(result.v[n])) :
                   \/ tag \in Range(cleaned_unified_tags)
                   \/ tag.v \notin DOMAIN cleaned_unified_tags
            /\ unique_tags \subseteq DOMAIN cleaned_unified_tags =>
                   \A tag \in Range(TagsOf(result.v[n])) :
                       tag \in Range(cleaned_unified_tags)
            /\ NoDuplicates(TagsOf(result.v[n]))

\* a post tagged A and B came back with the one tag C, the mapping having
\* sent both to "C\n"
C5_Witness ==
    /\ pc = "returned"
    /\ unique_tags = {TagA, TagB}
    /\ uni.result.v = [k \in {TagA, TagB} |-> JStr(TagC \o <<10>>)]
    /\ TagsOf(result.v[1]) = <<JStr(TagC)>>

\* C6: extract_metadata returns only a parsed mapping that has the three
\* keys and the language English or Sinhala, and returns it as parsed; a
\* parsed mapping that lacks a key or has another language makes it raise
\* the validation error (wrapped); and it calls the LLM once.
C6_ExtractValidation ==
    ext # None =>
        LET resp == ext.response
            r == ext.result
            res == resp.parsed.v
        IN  /\ r.ok =>
                /\ ~resp.raises /\ resp.parsed.ok /\ res.t = "dict"
                /\ {"line_count", "language", "tags"} \subseteq DOMAIN res.v
                /\ res.v["language"] \in {JStr(English), JStr(Sinhala)}
                /\ r.v = res.v
            /\ ( /\ ~resp.raises /\ HasBraceDelimited(resp.content)
                  /\ resp.parsed.ok /\ res.t = "dict"
                  /\ \/ ~({"line_count", "language", "tags"} \subseteq DOMAIN res.v)
                     \/ res.v["language"] \notin {JStr(English), JStr(Sinhala)} )
                => /\ ~r.ok
                   /\ r.type = "Exception"
                   /\ r.msg[1] = "Error extracting metadata"
                   /\ r.msg[2] \in {"Invalid metadata format returned by LLM.",
                                     "Invalid language returned by LLM."}
            /\ Cardinality({n \in DOMAIN calls :
                    calls[n] = [kind |-> "extract", index |-> ext.index]}) = 1

\* the LLM answered a full mapping whose language is French, and
\* extract_metadata raised
C6_Witness ==
    /\ ext # None
    /\ ext.response.parsed.ok
    /\ ext.response.parsed.v.t = "dict"
    /\ {"line_count", "language", "tags"} \subseteq DOMAIN ext.response.parsed.v.v
    /\ ext.response.parsed.v.v["language"] = JStr(French)
    /\ ~ext.result.ok

\* the unifier's response has no brace-delimited object, does not parse or
\* parses to something that is no mapping, or the call itself raised
BadUnifyResponse(resp) ==
    \/ resp.raises
    \/ ~HasBraceDelimited(resp.content)
    \/ ~resp.parsed.ok
    \/ resp.parsed.v.t # "dict"

\* C8: when the unifier's call fails, process_posts fails: it returns
\* nothing and writes nothing; and the output file is written only by a run
\* whose unification succeeded and whose every post had its tags rewritten.
C8_UnifyFailureEscalates ==
    /\ (uni # None /\ BadUnifyResponse(uni.response)) =>
           /\ pc = "failed"
           /\ failure.type = "Exception" \/ failure.type = "OutputParserException"
           /\ result = None
           /\ written = None
    /\ written # None =>
           /\ uni # None /\ uni.result.ok
           /\ j = Len(enriched_posts)
           /\ written = Some(enriched_posts)

\* two posts survived, an output path was given, and the unifier's answer
\* parsed to a list: the run failed
C8_Witness ==
    /\ pc = "failed"
    /\ processed_file_path
    /\ Len(enriched_posts) = 2
    /\ uni # None
    /\ uni.response.parsed = Ok(JList(<<>>))
    /\ written = None

====
